---- MODULE Spec2Model ----
(***************************************************************************)
(* Model of src/app.py (financas-pessoal): the durable store (users,       *)
(* accounts, creditors, pending items, transactions) and the request       *)
(* handlers that write to it.  Money is counted in integer minor units.    *)
(* Titles, dates and uid strings are cosmetic and are left out of the      *)
(* records.  A nullable column is a sequence: <<>> is NULL and <<v>> is v. *)
(*                                                                         *)
(* Every handler runs the before_request hook ensure_db first.  The        *)
(* handlers that issue one INSERT and commit are one step.  pendencias_pay *)
(* reads the pending item, reads the account and commits in three steps,   *)
(* each request working on the snapshot its own session has loaded, so     *)
(* that requests of several workers interleave as the database lets them.  *)
(*                                                                         *)
(* Two variables record history the tables do not hold: opening (the       *)
(* balance each account was created with) and posted_for (the pending item *)
(* each transaction was posted for).  No handler reads them.               *)
(***************************************************************************)
EXTENDS Integers, Sequences, FiniteSets

VARIABLES
    dialect,       \* database behind SQLALCHEMY_DATABASE_URI
    users,         \* table user in insertion order: <<username>>
    accounts,      \* table account: row id = index
    creditors,     \* table creditor
    pendings,      \* table pending_item
    transactions,  \* table transaction
    req,           \* per worker: the request it is serving and its session
    opening,       \* history: opening balance of each account
    posted_for     \* history: pending id each transaction was posted for

vars == <<dialect, users, accounts, creditors, pendings, transactions, req,
          opening, posted_for>>

durable == <<users, accounts, creditors, pendings, transactions>>

\* ---------------------------------------------------------------- bounds
MaxAccounts == 2
MaxCreditors == 1
MaxPendings == 2
NumWorkers == 2
MaxAmount == 2

Workers == 1..NumWorkers
SeqWorkers == {1}

\* ---------------------------------------------------------------- inputs
Dialects == {"sqlite", "postgresql"}
ValidKinds == {"PAGAR", "RECEBER", "EMPRESTIMO"}
Kinds == ValidKinds \cup {"OUTRO"}
AccountNames == {"Poupanca"}
OpeningBalances == {0, MaxAmount + 1}
Amounts == {0, MaxAmount}
PaidAmounts == {-1, 0, MaxAmount + 1}
CreditorTypes == {"EMPRESA"}

NULL == <<>>
Some(v) == <<v>>

Abs(x) == IF x < 0 THEN -x ELSE x

\* ---------------------------------------------------------------- tables
NewAccount(name, balance) == [name |-> name, balance |-> balance]

NewPendingItem(amount, kind, account_id, creditor_id) ==
    [kind |-> kind, status |-> "ABERTO", amount |-> amount,
     account_id |-> account_id, creditor_id |-> creditor_id,
     paid_amount |-> NULL, diff_interest_or_discount |-> NULL]

\* Faulty variant: the log records the magnitude of the movement only.
NewTransaction_Magnitude(account_id, description, amount) ==
    [account_id |-> account_id, description |-> description,
     amount |-> Abs(amount)]

\* Faulty variant: every transaction is posted on the first account.
NewTransaction_FirstAccount(account_id, description, amount) ==
    [account_id |-> 1, description |-> description, amount |-> amount]

NewTransaction(account_id, description, amount) ==
    [account_id |-> account_id, description |-> description, amount |-> amount]

NewCreditor(name, ctype) == [name |-> name, ctype |-> ctype]

\* A worker's request: where pendencias_pay stands, and the rows its session
\* has loaded (p with lines 194-196 applied, acc as read at line 198).
IdleReq == [pc |-> "idle", pending_id |-> 0, p |-> NULL, acc |-> NULL]

\* ---------------------------------------------------------------- init
Init ==
    /\ dialect \in Dialects
    /\ users = <<>>
    /\ accounts = <<>>
    /\ creditors = <<>>
    /\ pendings = <<>>
    /\ transactions = <<>>
    /\ req = [w \in Workers |-> IdleReq]
    /\ opening = <<>>
    /\ posted_for = <<>>

\* ---------------------------------------------------------------- ensure_db
\* bootstrap_defaults: the tables after the hook has committed.
\* Faulty variant of BootUsers: the admin row is added without the lookup.
BootUsers_NoLookup == Append(users, "admin")

BootUsers ==
    IF \E u \in 1..Len(users) : users[u] = "admin"
    THEN users
    ELSE Append(users, "admin")

BootAccounts ==
    IF Len(accounts) = 0
    THEN <<NewAccount("Conta Principal", 0)>>
    ELSE accounts

BootOpening == IF Len(accounts) = 0 THEN <<0>> ELSE opening

ensure_db ==
    /\ users' = BootUsers
    /\ accounts' = BootAccounts
    /\ opening' = BootOpening

\* ---------------------------------------------------------------- locking
\* A session that has flushed its UPDATE of pending_item holds, until it
\* commits or rolls back, the database write lock (sqlite) or the lock of
\* that row (postgresql).
Quiet == \A w \in Workers : req[w].pc = "idle"

WriteLockFree ==
    dialect = "sqlite" => \A w \in Workers : req[w].pc # "flushed"

Blocked(w, pending_id) ==
    \E v \in Workers \ {w} :
        /\ req[v].pc = "flushed"
        /\ dialect = "sqlite" \/ req[v].pending_id = pending_id

\* Foreign keys are declared on pending_item; sqlite does not enforce them
\* unless asked to, postgresql does.
ForeignKeysHold(account_id, creditor_id) ==
    dialect = "postgresql" =>
        /\ account_id \in 1..Len(BootAccounts)
        /\ creditor_id \in {NULL} \cup {Some(c) : c \in 1..Len(creditors)}

\* ---------------------------------------------------------------- pages
\* GET pages (dashboard, pendencias, contas, credores, login ...): the hook
\* runs, the page queries and renders.
dashboard ==
    /\ ensure_db
    /\ UNCHANGED <<dialect, creditors, pendings, transactions, req, posted_for>>

\* ---------------------------------------------------------------- creates
contas_create(name, opening_balance) ==
    /\ WriteLockFree
    /\ Len(BootAccounts) < MaxAccounts
    /\ users' = BootUsers
    /\ accounts' = Append(BootAccounts, NewAccount(name, opening_balance))
    /\ opening' = Append(BootOpening, opening_balance)
    /\ UNCHANGED <<dialect, creditors, pendings, transactions, req, posted_for>>

credores_create(name, ctype) ==
    /\ WriteLockFree
    /\ Len(creditors) < MaxCreditors
    /\ ensure_db
    /\ creditors' = Append(creditors, NewCreditor(name, ctype))
    /\ UNCHANGED <<dialect, pendings, transactions, req, posted_for>>

pendencias_create(amount, kind, account_id, creditor_id) ==
    /\ WriteLockFree
    /\ Len(pendings) < MaxPendings
    /\ ForeignKeysHold(account_id, creditor_id)
    /\ ensure_db
    /\ pendings' = Append(pendings,
                          NewPendingItem(amount, kind, account_id, creditor_id))
    /\ UNCHANGED <<dialect, creditors, transactions, req, posted_for>>

\* The commit raises IntegrityError: the row is not stored.
pendencias_create_rejected(amount, kind, account_id, creditor_id) ==
    /\ ~ForeignKeysHold(account_id, creditor_id)
    /\ ensure_db
    /\ UNCHANGED <<dialect, creditors, pendings, transactions, req, posted_for>>

\* ---------------------------------------------------------------- pay
\* Faulty variant: only PAGAR is a debit, EMPRESTIMO is posted as a credit.
trx_amount_LoanAsCredit(kind, paid_amount) ==
    IF kind = "PAGAR" THEN -Abs(paid_amount) ELSE Abs(paid_amount)

trx_amount(kind, paid_amount) ==
    IF kind \in {"PAGAR", "EMPRESTIMO"}
    THEN -Abs(paid_amount)
    ELSE Abs(paid_amount)

\* Faulty variant: the difference is taken the other way round.
Settled_DiffSwapped(p, paid_amount) ==
    [p EXCEPT !.paid_amount = Some(paid_amount),
              !.diff_interest_or_discount = Some(p.amount - paid_amount),
              !.status = "PAGO"]

Settled(p, paid_amount) ==
    [p EXCEPT !.paid_amount = Some(paid_amount),
              !.diff_interest_or_discount = Some(paid_amount - p.amount),
              !.status = "PAGO"]

\* Faulty variant of pay_begin: the handler returns only when the pending
\* item is missing, and settles a PAGO item again.
pay_begin_NoStatusCheck(w, pending_id, paid_amount) ==
    /\ req[w].pc = "idle"
    /\ ensure_db
    /\ IF pending_id \notin 1..Len(pendings)
       THEN req' = [req EXCEPT ![w] =
                [pc |-> "rejected", pending_id |-> pending_id,
                 p |-> NULL, acc |-> NULL]]
       ELSE req' = [req EXCEPT ![w] =
                [pc |-> "loaded", pending_id |-> pending_id,
                 p |-> Some(Settled(pendings[pending_id], paid_amount)),
                 acc |-> NULL]]
    /\ UNCHANGED <<dialect, creditors, pendings, transactions, posted_for>>

\* Lines 189-191: load the pending item; if it is missing or PAGO the handler
\* returns the redirect.  Lines 193-196: else it sets the item's fields in
\* the session.
pay_begin(w, pending_id, paid_amount) ==
    /\ req[w].pc = "idle"
    /\ ensure_db
    /\ IF pending_id \notin 1..Len(pendings) \/ pendings[pending_id].status = "PAGO"
       THEN req' = [req EXCEPT ![w] =
                [pc |-> "rejected", pending_id |-> pending_id,
                 p |-> NULL, acc |-> NULL]]
       ELSE req' = [req EXCEPT ![w] =
                [pc |-> "loaded", pending_id |-> pending_id,
                 p |-> Some(Settled(pendings[pending_id], paid_amount)),
                 acc |-> NULL]]
    /\ UNCHANGED <<dialect, creditors, pendings, transactions, posted_for>>

\* Line 198: the session flushes the UPDATE of pending_item (taking the
\* lock) and loads the account.
pay_get_account(w) ==
    /\ req[w].pc = "loaded"
    /\ ~Blocked(w, req[w].pending_id)
    /\ req[w].p[1].account_id \in 1..Len(accounts)
    /\ req' = [req EXCEPT ![w].pc = "flushed",
                          ![w].acc = Some(accounts[req[w].p[1].account_id])]
    /\ UNCHANGED <<dialect, durable, opening, posted_for>>

\* Lines 198-205: no such account, acc is None and acc.balance raises; the
\* session is rolled back.
pay_account_missing(w) ==
    /\ req[w].pc = "loaded"
    /\ ~Blocked(w, req[w].pending_id)
    /\ req[w].p[1].account_id \notin 1..Len(accounts)
    /\ req' = [req EXCEPT ![w].pc = "failed", ![w].p = NULL]
    /\ UNCHANGED <<dialect, durable, opening, posted_for>>

\* sqlite gives up waiting for the write lock ("database is locked").
pay_locked(w) ==
    /\ req[w].pc = "loaded"
    /\ dialect = "sqlite"
    /\ Blocked(w, req[w].pending_id)
    /\ req' = [req EXCEPT ![w].pc = "failed", ![w].p = NULL]
    /\ UNCHANGED <<dialect, durable, opening, posted_for>>

\* Faulty variant of pay_commit: the UPDATE of account has no WHERE clause and
\* moves every balance.
pay_commit_AllAccounts(w) ==
    /\ req[w].pc = "flushed"
    /\ LET id == req[w].pending_id
           p == req[w].p[1]
           amt == trx_amount(p.kind, p.paid_amount[1])
       IN /\ pendings' = [pendings EXCEPT
                ![id].paid_amount = p.paid_amount,
                ![id].diff_interest_or_discount = p.diff_interest_or_discount,
                ![id].status = p.status]
          /\ accounts' = [a \in 1..Len(accounts) |->
                [accounts[a] EXCEPT !.balance = accounts[a].balance + amt]]
          /\ transactions' = Append(transactions,
                NewTransaction(p.account_id, p.kind, amt))
          /\ posted_for' = Append(posted_for, id)
    /\ req' = [req EXCEPT ![w] = IdleReq]
    /\ UNCHANGED <<dialect, users, creditors, opening>>

\* Lines 200-215: balance and transaction from the loaded rows, then commit:
\* UPDATE pending_item, UPDATE account SET balance, INSERT transaction.
pay_commit(w) ==
    /\ req[w].pc = "flushed"
    /\ LET id == req[w].pending_id
           p == req[w].p[1]
           acc == req[w].acc[1]
           amt == trx_amount(p.kind, p.paid_amount[1])
       IN /\ pendings' = [pendings EXCEPT
                ![id].paid_amount = p.paid_amount,
                ![id].diff_interest_or_discount = p.diff_interest_or_discount,
                ![id].status = p.status]
          /\ accounts' = [accounts EXCEPT
                ![p.account_id].balance = acc.balance + amt]
          /\ transactions' = Append(transactions,
                NewTransaction(p.account_id, p.kind, amt))
          /\ posted_for' = Append(posted_for, id)
    /\ req' = [req EXCEPT ![w] = IdleReq]
    /\ UNCHANGED <<dialect, users, creditors, opening>>

\* Faulty variant of pay_commit_failed: the UPDATE of pending_item was
\* committed on its own before the failure.
pay_commit_failed_Partial(w) ==
    /\ req[w].pc = "flushed"
    /\ pendings' = [pendings EXCEPT ![req[w].pending_id] = req[w].p[1]]
    /\ req' = [req EXCEPT ![w].pc = "failed", ![w].p = NULL, ![w].acc = NULL]
    /\ UNCHANGED <<dialect, users, accounts, creditors, transactions, opening,
                   posted_for>>

\* Line 215 raises (the store cannot commit): the session is rolled back.
pay_commit_failed(w) ==
    /\ req[w].pc = "flushed"
    /\ req' = [req EXCEPT ![w].pc = "failed", ![w].p = NULL, ![w].acc = NULL]
    /\ UNCHANGED <<dialect, durable, opening, posted_for>>

\* The response of a request that posted nothing is sent (the redirect of
\* line 191, or the error page) and the session is removed.
pay_done(w) ==
    /\ req[w].pc \in {"rejected", "failed"}
    /\ req' = [req EXCEPT ![w] = IdleReq]
    /\ UNCHANGED <<dialect, durable, opening, posted_for>>

\* ---------------------------------------------------------------- specs
AccountRefs == 1..(MaxAccounts + 1)
CreditorRefs == {NULL} \cup {Some(c) : c \in 1..MaxCreditors}
PendingRefs == 1..MaxPendings

\* Requests served one at a time.  Pending items are created here without a
\* creditor; the concurrent specification below creates them with one.
SeqCreditorRefs == {NULL}

Next ==
    \/ Quiet /\ dashboard
    \/ \E n \in AccountNames, b \in OpeningBalances :
          Quiet /\ contas_create(n, b)
    \/ \E t \in CreditorTypes : Quiet /\ credores_create("Credor", t)
    \/ \E a \in Amounts, k \in Kinds, i \in AccountRefs, c \in SeqCreditorRefs :
          Quiet /\ pendencias_create(a, k, i, c)
    \/ \E a \in Amounts, k \in Kinds, i \in AccountRefs, c \in SeqCreditorRefs :
          Quiet /\ pendencias_create_rejected(a, k, i, c)
    \/ \E w \in SeqWorkers, id \in PendingRefs, paid \in PaidAmounts :
          pay_begin(w, id, paid)
    \/ \E w \in SeqWorkers : pay_get_account(w)
    \/ \E w \in SeqWorkers : pay_account_missing(w)
    \/ \E w \in SeqWorkers : pay_commit(w)
    \/ \E w \in SeqWorkers : pay_commit_failed(w)
    \/ \E w \in SeqWorkers : pay_done(w)

Spec == Init /\ [][Next]_vars

\* Requests of all workers interleaved.  The setup requests draw from
\* narrower input sets: what the settlements race on is the pending item's
\* kind, its account and the amounts paid.
ConcKinds == {"PAGAR"}
ConcAmounts == {MaxAmount}
ConcAccountRefs == 1..MaxAccounts
ConcPaidAmounts == {1, MaxAmount + 1}

NextConc ==
    \/ dashboard
    \/ \E n \in AccountNames : contas_create(n, 0)
    \/ \E t \in CreditorTypes : credores_create("Credor", t)
    \/ \E a \in ConcAmounts, k \in ConcKinds, i \in ConcAccountRefs,
          c \in CreditorRefs :
          pendencias_create(a, k, i, c)
    \/ \E a \in ConcAmounts, k \in ConcKinds, i \in ConcAccountRefs,
          c \in CreditorRefs :
          pendencias_create_rejected(a, k, i, c)
    \/ \E w \in Workers, id \in PendingRefs, paid \in ConcPaidAmounts :
          pay_begin(w, id, paid)
    \/ \E w \in Workers : pay_get_account(w)
    \/ \E w \in Workers : pay_account_missing(w)
    \/ \E w \in Workers : pay_locked(w)
    \/ \E w \in Workers : pay_commit(w)
    \/ \E w \in Workers : pay_commit_failed(w)
    \/ \E w \in Workers : pay_done(w)

SpecConc == Init /\ [][NextConc]_vars

\* ================================================================ claims
RECURSIVE SumAmounts(_, _, _)
\* Sum of the amounts of the first n transactions of trxs posted on account a.
SumAmounts(trxs, a, n) ==
    IF n = 0 THEN 0
    ELSE SumAmounts(trxs, a, n - 1)
         + (IF trxs[n].account_id = a THEN trxs[n].amount ELSE 0)

\* Number of transactions posted for pending item id.
Postings(pf, id) == Cardinality({t \in 1..Len(pf) : pf[t] = id})

PendingIds == 1..Len(pendings)
AccountIds == 1..Len(accounts)
IsPaid(id) == pendings[id].status = "PAGO"

\* A step that appends to the transaction log or changes a balance.
Posted == transactions' # transactions
Moved == \E a \in AccountIds : accounts'[a].balance # accounts[a].balance
Flipped == \E id \in PendingIds : pendings'[id].status # pendings[id].status

\* C1 (as stated): every account's balance equals the sum of the amounts of
\* the transactions posted on it, whatever its opening balance.
C1_BalanceIsSumOfTransactions ==
    \A a \in AccountIds :
        accounts[a].balance = SumAmounts(transactions, a, Len(transactions))

\* C1 (amended): with requests served one at a time, every account's balance
\* equals its opening balance plus the sum of the amounts of the transactions
\* posted on it.
C1_BalanceIsOpeningPlusTransactions ==
    \A a \in AccountIds :
        accounts[a].balance =
            opening[a] + SumAmounts(transactions, a, Len(transactions))

C1_Witness ==
    \E a \in AccountIds :
        /\ opening[a] # 0
        /\ \E t \in 1..Len(transactions) :
              transactions[t].account_id = a /\ transactions[t].amount # 0

\* C2: settle requests racing on one pending item post exactly one
\* transaction for it (none while it is ABERTO), and when it is the only
\* pending item of its account the balance has moved from the opening
\* balance by exactly its one signed movement.
C2_ConcurrentSettleOnce ==
    \A id \in PendingIds :
        /\ Postings(posted_for, id) = (IF IsPaid(id) THEN 1 ELSE 0)
        /\ ( /\ IsPaid(id)
             /\ pendings[id].account_id \in AccountIds
             /\ \A j \in PendingIds \ {id} :
                   pendings[j].account_id # pendings[id].account_id )
           => accounts[pendings[id].account_id].balance =
                 opening[pendings[id].account_id]
                 + trx_amount(pendings[id].kind, pendings[id].paid_amount[1])

\* C3: settling a pending item twice in sequence.  A PAGO item has exactly
\* one transaction and an ABERTO item none; a request for a PAGO item is
\* rejected; a rejected request changes no pending item, no balance and not
\* the log; a PAGO item's fields never change again; and the log and the
\* balances change only in a step that settles an ABERTO item.
C3_SecondSettleRejected ==
    /\ [](\A id \in PendingIds :
            Postings(posted_for, id) = (IF IsPaid(id) THEN 1 ELSE 0))
    /\ [][\A w \in Workers :
            /\ ( /\ req[w].pc = "idle" /\ req'[w].pc # "idle"
                 /\ req'[w].pending_id \in PendingIds
                 /\ IsPaid(req'[w].pending_id) )
               => req'[w].pc = "rejected"
            /\ (req[w].pc = "rejected" \/ req'[w].pc = "rejected")
               => /\ pendings' = pendings
                  /\ transactions' = transactions
                  /\ ~Moved]_vars
    /\ [][\A id \in PendingIds : IsPaid(id) => pendings'[id] = pendings[id]]_vars
    /\ [][(Posted \/ Moved) =>
            \E id \in PendingIds :
                pendings[id].status = "ABERTO" /\ pendings'[id].status = "PAGO"]_vars

C3_Witness ==
    \E w \in Workers :
        /\ req[w].pc = "rejected"
        /\ req[w].pending_id \in PendingIds
        /\ IsPaid(req[w].pending_id)
        /\ Postings(posted_for, req[w].pending_id) = 1

\* C4: settlements of different pending items never lose a balance update:
\* an account none of whose pending items was posted twice has the balance
\* opening + sum of its transactions.
C4_NoLostUpdate ==
    \A a \in AccountIds :
        (\A id \in PendingIds :
            pendings[id].account_id = a => Postings(posted_for, id) <= 1)
        => accounts[a].balance =
              opening[a] + SumAmounts(transactions, a, Len(transactions))

\* C5: the transaction a settle posts is -|paid| for PAGAR and EMPRESTIMO and
\* +|paid| for RECEBER, on the pending item's account, and the balance moves
\* by exactly that; no transaction has a sign against its item's kind.
C5_SignFollowsKind ==
    /\ [](\A t \in 1..Len(transactions) :
            LET k == pendings[posted_for[t]].kind
            IN /\ k \in {"PAGAR", "EMPRESTIMO"} => transactions[t].amount <= 0
               /\ k = "RECEBER" => transactions[t].amount >= 0)
    /\ [][Posted =>
            LET t == transactions'[Len(transactions')]
                p == pendings'[posted_for'[Len(posted_for')]]
                m == Abs(p.paid_amount[1])
                a == p.account_id
            IN /\ Len(transactions') = Len(transactions) + 1
               /\ t.account_id = a
               /\ p.kind \in {"PAGAR", "EMPRESTIMO"} =>
                     /\ t.amount = -m
                     /\ accounts'[a].balance = accounts[a].balance - m
               /\ p.kind = "RECEBER" =>
                     /\ t.amount = m
                     /\ accounts'[a].balance = accounts[a].balance + m]_vars

C5_Witness ==
    /\ \E t \in 1..Len(transactions) :
          /\ pendings[posted_for[t]].kind = "EMPRESTIMO"
          /\ pendings[posted_for[t]].paid_amount = Some(-1)
          /\ transactions[t].amount = -1
    /\ \E t \in 1..Len(transactions) :
          /\ pendings[posted_for[t]].kind = "RECEBER"
          /\ transactions[t].amount > 0

\* C6: a settle is all-or-nothing in the committed tables.  A pending item is
\* PAGO exactly when a transaction was posted for it; a step flips a status
\* exactly when it appends a transaction, moves a balance only when it
\* appends one, and applies the appended amount to the balance of the
\* transaction's account; a request that fails leaves the tables as they were.
C6_AllOrNothing ==
    /\ [](\A id \in PendingIds : IsPaid(id) <=> Postings(posted_for, id) >= 1)
    /\ [][/\ Flipped <=> Posted
          /\ Moved => Posted
          /\ Posted =>
                LET t == transactions'[Len(transactions')]
                IN /\ Len(transactions') = Len(transactions) + 1
                   /\ accounts'[t.account_id].balance =
                         accounts[t.account_id].balance + t.amount]_vars
    /\ [][\A w \in Workers :
            (req'[w].pc = "failed" /\ req[w].pc # "failed") =>
                UNCHANGED durable]_vars

C6_Witness ==
    \E w \in Workers :
        /\ req[w].pc = "failed"
        /\ pendings[req[w].pending_id].status = "ABERTO"
        /\ pendings[req[w].pending_id].account_id \in AccountIds
        /\ Postings(posted_for, req[w].pending_id) = 0

\* C7: an ABERTO pending item has paid_amount and diff NULL; a PAGO one has
\* both set, with diff = paid_amount - amount whatever its kind.
C7_PaidFields ==
    \A id \in PendingIds :
        LET p == pendings[id]
        IN /\ p.status \in {"ABERTO", "PAGO"}
           /\ p.status = "ABERTO" =>
                 p.paid_amount = NULL /\ p.diff_interest_or_discount = NULL
           /\ p.status = "PAGO" =>
                 /\ p.paid_amount # NULL
                 /\ p.diff_interest_or_discount # NULL
                 /\ p.diff_interest_or_discount =
                       Some(p.paid_amount[1] - p.amount)

C7_Witness ==
    \E id \in PendingIds :
        /\ IsPaid(id)
        /\ pendings[id].kind = "RECEBER"
        /\ pendings[id].diff_interest_or_discount = Some(-1 - MaxAmount)

\* C8: PAGO is terminal, also under concurrent settle requests: once a
\* pending item is PAGO its status, paid_amount and diff never change.
C8_SettledIsTerminal ==
    [][\A id \in PendingIds : IsPaid(id) => pendings'[id] = pendings[id]]_vars

\* C9: every pending item's account_id is the id of an existing account.
C9_AccountResolves ==
    \A id \in PendingIds : pendings[id].account_id \in AccountIds

\* C10: every stored pending item has amount > 0 and a kind among PAGAR,
\* RECEBER, EMPRESTIMO.
C10_ValidAmountAndKind ==
    \A id \in PendingIds :
        pendings[id].amount > 0 /\ pendings[id].kind \in ValidKinds

\* C11: a settle with a negative paid amount is rejected and writes nothing,
\* so no PAGO pending item holds a negative paid_amount (0 is accepted).
C11_NegativePaidRejected ==
    \A id \in PendingIds :
        IsPaid(id) => pendings[id].paid_amount[1] >= 0

\* C12: with requests served one at a time, the transactions are in
\* one-to-one correspondence with the PAGO pending items: as many of the one
\* as of the other, no two transactions for the same item, each transaction
\* for a PAGO item, on that item's account, with magnitude |paid_amount|; and
\* no step modifies or deletes a transaction already in the log.
C12_TransactionsMatchSettled ==
    /\ [](/\ Len(transactions) = Cardinality({id \in PendingIds : IsPaid(id)})
          /\ Len(posted_for) = Len(transactions)
          /\ \A t, u \in 1..Len(transactions) :
                posted_for[t] = posted_for[u] => t = u
          /\ \A t \in 1..Len(transactions) :
                LET p == pendings[posted_for[t]]
                IN /\ p.status = "PAGO"
                   /\ transactions[t].account_id = p.account_id
                   /\ Abs(transactions[t].amount) = Abs(p.paid_amount[1]))
    /\ [][/\ Len(transactions') >= Len(transactions)
          /\ \A t \in 1..Len(transactions) :
                transactions'[t] = transactions[t]]_vars

C12_Witness ==
    /\ Len(transactions) = 2
    /\ transactions[1].account_id # transactions[2].account_id
    /\ \A id \in PendingIds : IsPaid(id)

\* C13: serving a read-only page, the before_request hook included, writes
\* nothing: the accounts with their balances, the creditors, the pending
\* items and the transactions are as before.
C13_QueriesNeverWrite ==
    [][dashboard => UNCHANGED <<accounts, creditors, pendings, transactions>>]_vars

\* C14: a settle that posts changes only the settled pending item's
\* paid_amount, diff and status, the balance of that item's account, and the
\* log by one record appended on that account; every other pending item and
\* account, the creditors, the users and the transactions already in the log
\* are as before.
C14_SettleFrame ==
    [][Posted =>
        LET id == posted_for'[Len(posted_for')]
            a == pendings[id].account_id
        IN /\ Len(pendings') = Len(pendings)
           /\ \A j \in PendingIds \ {id} : pendings'[j] = pendings[j]
           /\ pendings'[id] =
                 [pendings[id] EXCEPT
                    !.paid_amount = pendings'[id].paid_amount,
                    !.diff_interest_or_discount =
                        pendings'[id].diff_interest_or_discount,
                    !.status = pendings'[id].status]
           /\ Len(accounts') = Len(accounts)
           /\ \A b \in AccountIds \ {a} : accounts'[b] = accounts[b]
           /\ accounts'[a].name = accounts[a].name
           /\ creditors' = creditors
           /\ users' = users
           /\ Len(transactions') = Len(transactions) + 1
           /\ SubSeq(transactions', 1, Len(transactions)) = transactions
           /\ transactions'[Len(transactions')].account_id = a]_vars

C14_Witness ==
    /\ Len(transactions) = 1
    /\ transactions[1].account_id = 1
    /\ transactions[1].amount # 0
    /\ Len(accounts) = 2
    /\ accounts[2].balance = MaxAmount + 1
    /\ \E j \in PendingIds : pendings[j].status = "ABERTO"

\* C15: bootstrap_defaults is idempotent on the stored tables: after any
\* request there is exactly one admin user, a step that starts with a user row
\* adds no user and one that starts with an account adds no account named
\* "Conta Principal", and that account is created only as the first account,
\* with balance 0.
C15_BootstrapIdempotent ==
    /\ [](/\ Cardinality({u \in 1..Len(users) : users[u] = "admin"}) <= 1
          /\ \A a \in AccountIds :
                accounts[a].name = "Conta Principal" => a = 1 /\ opening[a] = 0)
    /\ [][/\ Cardinality({u \in 1..Len(users') : users'[u] = "admin"}) = 1
          /\ Len(users) > 0 => users' = users
          /\ Len(accounts) > 0 =>
                \A a \in 1..Len(accounts') :
                    accounts'[a].name = "Conta Principal" =>
                        a <= Len(accounts) /\ accounts[a].name = "Conta Principal"
          /\ Len(accounts) = 0 =>
                accounts'[1] = NewAccount("Conta Principal", 0)]_vars

C15_Witness ==
    /\ users = <<"admin">>
    /\ Len(accounts) = MaxAccounts
    /\ accounts[1].name = "Conta Principal"
    /\ Len(transactions) > 0

====
